---- MODULE Spec2Model ----
(***************************************************************************)
(* Model of core/lib/health_check/src/lib.rs: the health value, the        *)
(* ReactiveHealthCheck / HealthUpdater pair built on a watch channel, and  *)
(* the AppHealthCheck aggregator with its two time limits.                 *)
(***************************************************************************)
EXTENDS Integers, Sequences, FiniteSets, TLC

(* ------------------------------ bounds -------------------------------- *)
\* Largest number of ReactiveHealthCheck handles alive on one channel.
MaxReceivers == 2
\* Largest number of checks pushed into one AppHealthCheck.
MaxChecks == 2
\* Largest duration (in clock ticks) given to AppHealthCheck::new.
MaxLimit == 2

(* --------------------------- health values ---------------------------- *)
HealthStatus == {"NotReady", "Ready", "Affected", "ShuttingDown", "ShutDown", "Panicked"}

\* Option<serde_json::Value>: None, or one of two distinct payloads.
None == "None"
Details == {None, "d1", "d2"}

Health == [status : HealthStatus, details : Details]

\* impl From<HealthStatus> for Health
From(status) == [status |-> status, details |-> None]

\* Health::with_details
with_details(h, d) == [h EXCEPT !.details = d]

is_healthy_while_shutting_down(status) == status \in {"Ready", "Affected", "ShuttingDown"}

\* HealthStatus::is_healthy
is_healthy(status) == status \in {"Ready", "Affected"}

priority_not_ready_below_shut_down(status) ==
    CASE status = "Ready"        -> 0
      [] status = "Affected"     -> 1
      [] status = "ShuttingDown" -> 2
      [] status = "NotReady"     -> 3
      [] status = "ShutDown"     -> 4
      [] status = "Panicked"     -> 5

\* HealthStatus::priority_for_aggregation
priority_for_aggregation(status) ==
    CASE status = "Ready"        -> 0
      [] status = "Affected"     -> 1
      [] status = "ShuttingDown" -> 2
      [] status = "ShutDown"     -> 3
      [] status = "NotReady"     -> 4
      [] status = "Panicked"     -> 5

(* ------------------------------- state -------------------------------- *)
VARIABLES
    health_sender,      \* the value held by the watch channel
    should_track_drop,  \* HealthUpdater.should_track_drop
    updater,            \* "live", or how the handle ended: "frozen" / "dropped"
    panicking,          \* thread::panicking() of the thread owning the updater
    receivers,          \* number of live ReactiveHealthCheck handles on the channel
    last_update,        \* NoCall, or the locals and result of the last update() call
    terminal_updates,   \* number of update() calls issued by Drop
    last_read,          \* NoCall, or the reader and result of the last check_health()
    slow_time_limit,    \* AppHealthCheck.slow_time_limit
    hard_time_limit,    \* AppHealthCheck.hard_time_limit
    components,         \* AppHealthCheck.components: the Vec behind the Mutex
    lock,               \* holder of the components Mutex: "free", "check_health", "insert"
    inserting,          \* NoCheck, or the check an insert_custom_component call is pushing
    pc,                 \* position of the AppHealthCheck::check_health call
    health_checks,      \* its local clone of the components
    tasks,              \* one check_health_with_time_limit future per cloned check
    now,                \* clock ticks since the call started polling
    app_health          \* NoCall, or the AppHealth the call returned

cell_vars == <<health_sender, should_track_drop, updater, panicking, receivers,
               last_update, terminal_updates, last_read>>

app_vars == <<slow_time_limit, hard_time_limit, components, lock, inserting, pc,
              health_checks, tasks, now, app_health>>

vars == <<health_sender, should_track_drop, updater, panicking, receivers,
          last_update, terminal_updates, last_read,
          slow_time_limit, hard_time_limit, components, lock, inserting, pc,
          health_checks, tasks, now, app_health>>

NoCall == [call |-> "none"]

(* ----------------- ReactiveHealthCheck / HealthUpdater ---------------- *)
initial_health_ready == From("Ready")

\* The value the channel is created with: HealthStatus::NotReady.into().
initial_health == From("NotReady")

\* ReactiveHealthCheck::new: the channel with its initial value, one
\* receiver, an updater that tracks its drop.
reactive_new ==
    /\ health_sender = initial_health
    /\ should_track_drop = TRUE
    /\ updater = "live"
    /\ panicking = FALSE
    /\ receivers = 1
    /\ last_update = NoCall
    /\ terminal_updates = 0
    /\ last_read = NoCall

changed_status_only(old_health, health) == old_health.status # health.status

\* The comparison `old_health != health` of HealthUpdater::update
\* (derived PartialEq on Health: status and details).
changed(old_health, health) == old_health # health

\* Body of HealthUpdater::update: send_replace, then compare with the old value.
update_body(health) ==
    LET old_health == health_sender IN
    /\ health_sender' = health
    /\ last_update' = [call |-> "update", health |-> health, old_health |-> old_health,
                       ret |-> changed(old_health, health)]

update_through_ended_handle(health) ==
    /\ update_body(health)
    /\ UNCHANGED <<should_track_drop, updater, panicking, receivers, terminal_updates, last_read>>
    /\ UNCHANGED app_vars

\* HealthUpdater::update called through a live handle.
update(health) ==
    /\ updater = "live"
    /\ update_body(health)
    /\ UNCHANGED <<should_track_drop, updater, panicking, receivers, terminal_updates, last_read>>
    /\ UNCHANGED app_vars

terminal_health_never_panicked(is_panicking) == "ShutDown"

\* The terminal health chosen by Drop.
terminal_health(is_panicking) == IF is_panicking THEN "Panicked" ELSE "ShutDown"

drop_body_never_updating(track) ==
    UNCHANGED <<health_sender, last_update, terminal_updates>>

drop_body_ignoring_flag(track) ==
    /\ update_body(From(terminal_health(panicking)))
    /\ terminal_updates' = terminal_updates + 1

\* impl Drop for HealthUpdater, run with the given value of should_track_drop.
drop_body(track) ==
    IF ~track
    THEN UNCHANGED <<health_sender, last_update, terminal_updates>>
    ELSE /\ update_body(From(terminal_health(panicking)))
         /\ terminal_updates' = terminal_updates + 1

\* The handle goes out of scope, is dropped explicitly, or its task ends.
drop ==
    /\ updater = "live"
    /\ drop_body(should_track_drop)
    /\ updater' = "dropped"
    /\ UNCHANGED <<should_track_drop, panicking, receivers, last_read>>
    /\ UNCHANGED app_vars

\* HealthUpdater::freeze(mut self): clears the flag, then `self` is dropped
\* at the end of the function.
freeze ==
    /\ updater = "live"
    /\ should_track_drop' = FALSE
    /\ drop_body(should_track_drop')
    /\ updater' = "frozen"
    /\ UNCHANGED <<panicking, receivers, last_read>>
    /\ UNCHANGED app_vars

\* The thread owning the updater starts to unwind.
panic ==
    /\ updater = "live"
    /\ ~panicking
    /\ panicking' = TRUE
    /\ UNCHANGED <<health_sender, should_track_drop, updater, receivers,
                   last_update, terminal_updates, last_read>>
    /\ UNCHANGED app_vars

\* HealthUpdater::subscribe: one more receiver on the same channel.
subscribe ==
    /\ updater = "live"
    /\ receivers < MaxReceivers
    /\ receivers' = receivers + 1
    /\ UNCHANGED <<health_sender, should_track_drop, updater, panicking,
                   last_update, terminal_updates, last_read>>
    /\ UNCHANGED app_vars

\* #[derive(Clone)] on ReactiveHealthCheck.
clone_check ==
    /\ receivers >= 1
    /\ receivers < MaxReceivers
    /\ receivers' = receivers + 1
    /\ UNCHANGED <<health_sender, should_track_drop, updater, panicking,
                   last_update, terminal_updates, last_read>>
    /\ UNCHANGED app_vars

\* A ReactiveHealthCheck handle is dropped.
drop_check ==
    /\ receivers >= 1
    /\ receivers' = receivers - 1
    /\ UNCHANGED <<health_sender, should_track_drop, updater, panicking,
                   last_update, terminal_updates, last_read>>
    /\ UNCHANGED app_vars

borrow_status_only == From(health_sender.status)

\* self.health_receiver.borrow().clone()
borrow == health_sender

\* <ReactiveHealthCheck as CheckHealth>::check_health on handle r.
reactive_check_health(r) ==
    /\ r \in 1..receivers
    /\ last_read' = [call |-> "check_health", reader |-> r, value |-> borrow]
    /\ UNCHANGED <<health_sender, should_track_drop, updater, panicking, receivers,
                   last_update, terminal_updates>>
    /\ UNCHANGED app_vars


(* --------------------------- AppHealthCheck --------------------------- *)
\* Names a check may report through CheckHealth::name.
Names == {"first", "second"}

\* Values a check's check_health future may resolve to: every status without
\* details, and NotReady with details. A registered check is any CheckHealth
\* implementation: it resolves at any instant with any of these values, or
\* never, which covers a ReactiveHealthCheck (resolves at its first poll with
\* the value of its channel).
Outputs == {From(status) : status \in HealthStatus} \cup {with_details(From("NotReady"), "d1")}

NoCheck == [name |-> "none"]
NoHealth == [status |-> "none"]

\* AppHealthCheck::new: an empty registry and the two limits as given.
app_new(slow, hard) ==
    /\ components = <<>>
    /\ slow_time_limit = slow
    /\ hard_time_limit = hard
    /\ lock = "free"
    /\ inserting = NoCheck
    /\ pc = "idle"
    /\ health_checks = <<>>
    /\ tasks = <<>>
    /\ now = 0
    /\ app_health = NoCall

\* insert_custom_component up to `self.components.lock()`.
insert_lock(name) ==
    /\ lock = "free"
    /\ inserting = NoCheck
    /\ Len(components) < MaxChecks
    /\ lock' = "insert"
    /\ inserting' = [name |-> name]
    /\ UNCHANGED <<slow_time_limit, hard_time_limit, components, pc, health_checks,
                   tasks, now, app_health>>
    /\ UNCHANGED cell_vars

insert_push_replacing_same_name ==
    /\ lock = "insert"
    /\ components' =
          IF \E i \in 1..Len(components) : components[i].name = inserting.name
          THEN [i \in 1..Len(components) |->
                  IF components[i].name = inserting.name THEN inserting ELSE components[i]]
          ELSE Append(components, inserting)
    /\ inserting' = NoCheck
    /\ lock' = "free"
    /\ UNCHANGED <<slow_time_limit, hard_time_limit, pc, health_checks, tasks, now, app_health>>
    /\ UNCHANGED cell_vars

insert_push_into_running_call ==
    /\ lock = "insert"
    /\ components' = Append(components, inserting)
    /\ inserting' = NoCheck
    /\ lock' = "free"
    /\ IF pc = "polling"
       THEN /\ health_checks' = Append(health_checks, inserting)
            /\ tasks' = Append(tasks, [check_future |-> [state |-> "pending"], stage |-> "slow",
                                       slow_logged |-> FALSE, output |-> [status |-> "none"],
                                       is_armed |-> TRUE, warned |-> FALSE])
       ELSE UNCHANGED <<health_checks, tasks>>
    /\ UNCHANGED <<slow_time_limit, hard_time_limit, pc, now, app_health>>
    /\ UNCHANGED cell_vars

\* The rest of insert_custom_component: the duplicate-name warning has no
\* effect on the registry; the check is pushed and the guard is released.
insert_push ==
    /\ lock = "insert"
    /\ components' = Append(components, inserting)
    /\ inserting' = NoCheck
    /\ lock' = "free"
    /\ UNCHANGED <<slow_time_limit, hard_time_limit, pc, health_checks, tasks, now, app_health>>
    /\ UNCHANGED cell_vars

\* A fresh check_health_with_time_limit future: guard armed, check future
\* created, waiting under the slow limit, "takes >slow_time_limit" not logged.
new_task == [check_future |-> [state |-> "pending"], stage |-> "slow",
             slow_logged |-> FALSE, output |-> NoHealth, is_armed |-> TRUE,
             warned |-> FALSE]

\* impl Drop for DropGuard: warn "was dropped before completion" when the
\* guard is still armed.
guard_drop(task) ==
    IF ~task.is_armed
    THEN task
    ELSE [task EXCEPT !.warned = TRUE]

\* AppHealthCheck::check_health up to `self.components.lock()`.
app_lock ==
    /\ pc \in {"idle", "returned", "cancelled"}
    /\ lock = "free"
    /\ lock' = "check_health"
    /\ pc' = "locked"
    /\ health_checks' = <<>>
    /\ tasks' = <<>>
    /\ now' = 0
    /\ app_health' = NoCall
    /\ UNCHANGED <<slow_time_limit, hard_time_limit, components, inserting>>
    /\ UNCHANGED cell_vars

app_clone_skipping_shadowed ==
    /\ pc = "locked"
    /\ health_checks' = components
    /\ lock' = "free"
    /\ tasks' = [i \in 1..Len(components) |->
                  [check_future |-> [state |-> "pending"],
                   stage |-> IF \E j \in (i + 1)..Len(components) :
                                    components[j].name = components[i].name
                             THEN "returned" ELSE "slow",
                   slow_logged |-> FALSE, output |-> [status |-> "none"],
                   is_armed |-> TRUE, warned |-> FALSE]]
    /\ now' = 0
    /\ pc' = "polling"
    /\ UNCHANGED <<slow_time_limit, hard_time_limit, components, inserting, app_health>>
    /\ UNCHANGED cell_vars

app_clone_keeping_lock ==
    /\ pc = "locked"
    /\ health_checks' = components
    /\ tasks' = [i \in 1..Len(components) |->
                  [check_future |-> [state |-> "pending"], stage |-> "slow",
                   slow_logged |-> FALSE, output |-> [status |-> "none"],
                   is_armed |-> TRUE, warned |-> FALSE]]
    /\ now' = 0
    /\ pc' = "polling"
    /\ UNCHANGED <<slow_time_limit, hard_time_limit, components, lock, inserting, app_health>>
    /\ UNCHANGED cell_vars

\* `.clone()` under the lock, the guard is released at the end of the
\* statement, and join_all creates one future per cloned check.
app_clone ==
    /\ pc = "locked"
    /\ health_checks' = components
    /\ lock' = "free"
    /\ tasks' = [i \in 1..Len(components) |-> new_task]
    /\ now' = 0
    /\ pc' = "polling"
    /\ UNCHANGED <<slow_time_limit, hard_time_limit, components, inserting, app_health>>
    /\ UNCHANGED cell_vars

\* The deadline of the second wait: Instant::now() + hard_time_limit, taken
\* when the future is first polled (tick 0 of the call).
timeout_at == 0 + hard_time_limit

\* Ok(output) of tokio::time::timeout(slow_time_limit, &mut check_future):
\* disarm the guard and return the pair, which drops the guard; Err(_): log
\* "takes >slow_time_limit" and go on to the second wait.
slow_wait(task) ==
    IF task.check_future.state = "ready"
    THEN guard_drop([task EXCEPT !.stage = "returned", !.output = task.check_future.output,
                                 !.is_armed = FALSE])
    ELSE [task EXCEPT !.stage = "hard", !.slow_logged = TRUE]

hard_wait_discarding_output(task) ==
    [task EXCEPT !.stage = "returned", !.output = From("NotReady"), !.is_armed = FALSE]

hard_wait_leaving_guard_armed(task) ==
    IF task.check_future.state = "ready"
    THEN guard_drop([task EXCEPT !.stage = "returned", !.output = task.check_future.output,
                                 !.is_armed = FALSE])
    ELSE guard_drop([task EXCEPT !.stage = "returned", !.output = From("NotReady"),
                                 !.check_future = [state |-> "dropped"]])

\* Ok(output) of tokio::time::timeout_at(timeout_at, check_future): the
\* check's output; Err(_): NotReady without details. The guard is disarmed
\* before the match, and the function's locals (the check future, pending on
\* Err, and the guard) are dropped on return.
hard_wait(task) ==
    IF task.check_future.state = "ready"
    THEN guard_drop([task EXCEPT !.stage = "returned", !.output = task.check_future.output,
                                 !.is_armed = FALSE])
    ELSE guard_drop([task EXCEPT !.stage = "returned", !.output = From("NotReady"),
                                 !.is_armed = FALSE, !.check_future = [state |-> "dropped"]])

\* The check's own check_health future resolves with `output` while one of
\* the two waits holds it: both waits poll the future before their timer, so
\* the wait in progress returns Ok(output), also at the instant of its deadline.
check_completes(i, output) ==
    /\ pc = "polling"
    /\ i \in 1..Len(tasks)
    /\ tasks[i].stage \in {"slow", "hard"}
    /\ LET resolved == [tasks[i] EXCEPT !.check_future = [state |-> "ready", output |-> output]]
       IN  tasks' = [tasks EXCEPT ![i] = IF resolved.stage = "slow"
                                         THEN slow_wait(resolved)
                                         ELSE hard_wait(resolved)]
    /\ UNCHANGED <<slow_time_limit, hard_time_limit, components, lock, inserting, pc,
                   health_checks, now, app_health>>
    /\ UNCHANGED cell_vars

\* The timer of timeout(slow_time_limit, ..) has elapsed with the check pending.
slow_is_elapsed(task) == task.stage = "slow" /\ now >= slow_time_limit

slow_elapsed(i) ==
    /\ pc = "polling"
    /\ i \in 1..Len(tasks)
    /\ slow_is_elapsed(tasks[i])
    /\ tasks' = [tasks EXCEPT ![i] = slow_wait(tasks[i])]
    /\ UNCHANGED <<slow_time_limit, hard_time_limit, components, lock, inserting, pc,
                   health_checks, now, app_health>>
    /\ UNCHANGED cell_vars

\* The deadline of timeout_at(timeout_at, ..) has passed with the check pending.
hard_is_elapsed(task) == task.stage = "hard" /\ now >= timeout_at

hard_elapsed(i) ==
    /\ pc = "polling"
    /\ i \in 1..Len(tasks)
    /\ hard_is_elapsed(tasks[i])
    /\ tasks' = [tasks EXCEPT ![i] = hard_wait(tasks[i])]
    /\ UNCHANGED <<slow_time_limit, hard_time_limit, components, lock, inserting, pc,
                   health_checks, now, app_health>>
    /\ UNCHANGED cell_vars

\* The clock advances by one tick while the call waits on some check: every
\* timer that is due at the current instant has fired first.
tick ==
    /\ pc = "polling"
    /\ \E i \in 1..Len(tasks) : tasks[i].stage # "returned"
    /\ \A i \in 1..Len(tasks) : ~slow_is_elapsed(tasks[i]) /\ ~hard_is_elapsed(tasks[i])
    /\ now' = now + 1
    /\ UNCHANGED <<slow_time_limit, hard_time_limit, components, lock, inserting, pc,
                   health_checks, tasks, app_health>>
    /\ UNCHANGED cell_vars

RECURSIVE collect_first_wins(_, _)
collect_first_wins(names, outputs) ==
    IF Len(names) = 0
    THEN << >>
    ELSE LET back == collect_first_wins(Tail(names), Tail(outputs))
         IN  [k \in (DOMAIN back) \cup {Head(names)} |->
                 IF k = Head(names) THEN Head(outputs) ELSE back[k]]

\* What dropping a check_health_with_time_limit future does: a future that
\* has returned holds nothing more; otherwise its check future is dropped
\* while pending and its guard is dropped as it stands.
task_drop(task) ==
    IF task.stage = "returned"
    THEN task
    ELSE guard_drop([task EXCEPT !.stage = "dropped", !.check_future = [state |-> "dropped"]])

\* The caller drops the future of AppHealthCheck::check_health while it is
\* suspended in join_all: every future of the call is dropped.
app_cancel ==
    /\ pc = "polling"
    /\ \E i \in 1..Len(tasks) : tasks[i].stage # "returned"
    /\ tasks' = [i \in 1..Len(tasks) |-> task_drop(tasks[i])]
    /\ pc' = "cancelled"
    /\ UNCHANGED <<slow_time_limit, hard_time_limit, components, lock, inserting,
                   health_checks, now, app_health>>
    /\ UNCHANGED cell_vars

\* `.into_iter().collect()` into a HashMap: pairs are inserted in order, so
\* a later pair replaces an earlier one with the same name.
RECURSIVE collect(_, _)
collect(names, outputs) ==
    IF Len(names) = 0
    THEN << >>
    ELSE LET n == Len(names)
             front == collect(SubSeq(names, 1, n - 1), SubSeq(outputs, 1, n - 1))
         IN  [k \in (DOMAIN front) \cup {names[n]} |->
                 IF k = names[n] THEN outputs[n] ELSE front[k]]

\* `.values().map(status).max_by_key(priority_for_aggregation).unwrap_or(Ready)`
aggregated_status(map) ==
    IF DOMAIN map = {}
    THEN "Ready"
    ELSE CHOOSE status \in {map[k].status : k \in DOMAIN map} :
            \A k \in DOMAIN map :
                priority_for_aggregation(map[k].status) <= priority_for_aggregation(status)

\* AppHealth::is_healthy
app_is_healthy(health) == is_healthy(health.inner.status)

app_return_on_first_output ==
    /\ pc = "polling"
    /\ \E i \in 1..Len(tasks) : tasks[i].stage = "returned"
    /\ LET map == collect([i \in 1..Len(tasks) |-> health_checks[i].name],
                          [i \in 1..Len(tasks) |->
                              IF tasks[i].stage = "returned"
                              THEN tasks[i].output ELSE From("NotReady")])
       IN  app_health' = [call |-> "check_health",
                          inner |-> From(aggregated_status(map)),
                          components |-> map]
    /\ pc' = "returned"
    /\ UNCHANGED <<slow_time_limit, hard_time_limit, components, lock, inserting,
                   health_checks, tasks, now>>
    /\ UNCHANGED cell_vars

\* join_all has every output: the rest of AppHealthCheck::check_health.
app_return ==
    /\ pc = "polling"
    /\ \A i \in 1..Len(tasks) : tasks[i].stage = "returned"
    /\ LET map == collect([i \in 1..Len(tasks) |-> health_checks[i].name],
                          [i \in 1..Len(tasks) |-> tasks[i].output])
       IN  app_health' = [call |-> "check_health",
                          inner |-> From(aggregated_status(map)),
                          components |-> map]
    /\ pc' = "returned"
    /\ UNCHANGED <<slow_time_limit, hard_time_limit, components, lock, inserting,
                   health_checks, tasks, now>>
    /\ UNCHANGED cell_vars

Init ==
    /\ reactive_new
    /\ \E slow \in 1..MaxLimit, hard \in 1..MaxLimit : app_new(slow, hard)

Next ==
    \/ \E name \in Names : insert_lock(name)
    \/ insert_push
    \/ app_lock
    \/ app_clone
    \/ \E i \in 1..MaxChecks, output \in Outputs : check_completes(i, output)
    \/ \E i \in 1..MaxChecks : slow_elapsed(i)
    \/ \E i \in 1..MaxChecks : hard_elapsed(i)
    \/ tick
    \/ app_return
    \/ app_cancel

Spec == Init /\ [][Next]_vars

(* ------------------ the cell on its own: CellSpec --------------------- *)
CellInit == reactive_new /\ app_new(1, 2)

CellNext ==
    \/ \E health \in Health : update(health)
    \/ drop
    \/ freeze
    \/ panic
    \/ subscribe
    \/ clone_check
    \/ drop_check
    \/ \E r \in 1..MaxReceivers : reactive_check_health(r)

CellSpec == CellInit /\ [][CellNext]_vars

(* ------ the aggregator over checks that read the cell: ReactiveSpec ---- *)
\* Values the component passes to HealthUpdater::update in this specification.
Updates == {From("Ready"), with_details(From("Affected"), "d1")}

\* A registered ReactiveHealthCheck (under either name) resolves its
\* check_health inside AppHealthCheck::check_health_with_time_limit: the
\* output is the clone of the borrowed value.
registered_check_health(i) == check_completes(i, borrow)

ReactiveInit == reactive_new /\ app_new(1, 2)

ReactiveNext ==
    \/ \E health \in Updates : update(health)
    \/ drop
    \/ freeze
    \/ panic
    \/ \E name \in Names : insert_lock(name)
    \/ insert_push
    \/ app_lock
    \/ app_clone
    \/ \E i \in 1..MaxChecks : registered_check_health(i)
    \/ \E i \in 1..MaxChecks : slow_elapsed(i)
    \/ \E i \in 1..MaxChecks : hard_elapsed(i)
    \/ tick
    \/ app_return
    \/ app_cancel

ReactiveSpec == ReactiveInit /\ [][ReactiveNext]_vars

(* =========================== properties =============================== *)
NotReadyNoDetails == [status |-> "NotReady", details |-> None]

(* C1: every update(h) call returns true exactly when h differs, in status
   or in details, from the value stored immediately before the call, and
   leaves h stored. *)
C1_UpdateReturnsWhetherChanged ==
    /\ [](last_update.call = "update" =>
            /\ last_update.ret = ~(/\ last_update.old_health.status = last_update.health.status
                                   /\ last_update.old_health.details = last_update.health.details)
            /\ health_sender = last_update.health)
    /\ [][last_update' # last_update =>
            /\ last_update'.old_health = health_sender
            /\ health_sender' = last_update'.health]_vars

\* A details-only change with the same status returned true.
C1_Witness ==
    /\ last_update.call = "update"
    /\ updater = "live"
    /\ last_update.old_health.status = last_update.health.status
    /\ last_update.old_health.details # last_update.health.details
    /\ last_update.ret = TRUE

(* C2: once a never-frozen updater is dropped, the cell holds ShutDown
   without details if the dropping thread was not panicking and Panicked
   without details if it was, and every later check_health of a reader
   returns that value. *)
C2_DropPublishesTerminalHealth ==
    /\ [](updater = "dropped" =>
            health_sender = [status |-> IF panicking THEN "Panicked" ELSE "ShutDown",
                             details |-> None])
    /\ [][(updater = "dropped" /\ last_read' # last_read) =>
            last_read'.value = [status |-> IF panicking THEN "Panicked" ELSE "ShutDown",
                                details |-> None]]_vars

\* Dropped while panicking, after an update with details, and read back.
C2_Witness ==
    /\ updater = "dropped"
    /\ panicking
    /\ last_update.old_health.details # None
    /\ last_read.call = "check_health"
    /\ last_read.value = [status |-> "Panicked", details |-> None]

(* C3: after freeze() no terminal update happens, panicking or not: the
   freeze step and every later step leave the cell unchanged, so it keeps
   the last value pushed by update (NotReady if there was none), and a
   reader's check_health returns that value. *)
C3_FreezeKeepsLastValue ==
    /\ [](updater = "frozen" =>
            /\ terminal_updates = 0
            /\ health_sender = IF last_update.call = "update"
                               THEN last_update.health ELSE NotReadyNoDetails)
    /\ [][updater' = "frozen" => health_sender' = health_sender]_vars
    /\ [][(updater = "frozen" /\ last_read' # last_read) =>
            last_read'.value = health_sender]_vars

\* Frozen by a panicking thread after pushing Ready, then read back.
C3_Witness ==
    /\ updater = "frozen"
    /\ panicking
    /\ last_update.call = "update"
    /\ health_sender.status = "Ready"
    /\ last_read.call = "check_health"
    /\ last_read.value = health_sender
    /\ last_read.reader = 2

(* C7: until the first update or the drop of the updater, the cell holds
   NotReady without details and every reader, the original one or a
   subscribed one, has read exactly that. *)
C7_FreshCellIsNotReady ==
    last_update.call = "none" =>
        /\ health_sender = NotReadyNoDetails
        /\ last_read.call = "check_health" => last_read.value = NotReadyNoDetails

\* A subscribed reader has polled the cell before any update.
C7_Witness ==
    /\ last_update.call = "none"
    /\ updater = "live"
    /\ last_read.call = "check_health"
    /\ last_read.reader = 2

(* C10: a reader's check_health is always possible and returns the whole
   value held by the channel at that moment, which is the initial value or
   the argument of the latest update, whichever reader asks. *)
C10_ReadersSeeLatestWholeValue ==
    /\ [](\A r \in 1..receivers : ENABLED reactive_check_health(r))
    /\ [](health_sender = IF last_update.call = "update"
                          THEN last_update.health ELSE NotReadyNoDetails)
    /\ [][last_read' # last_read => last_read'.value = health_sender]_vars

\* The second reader got a value with details right after an update that
\* changed both the status and the details.
C10_Witness ==
    /\ last_read.call = "check_health"
    /\ last_read.reader = 2
    /\ last_read.value = health_sender
    /\ last_update.call = "update"
    /\ health_sender.details = "d2"
    /\ last_update.old_health.details = "d1"
    /\ last_update.old_health.status # health_sender.status

(* ---------------------- aggregator properties ------------------------- *)
\* The aggregation priority the statuses are said to have.
ClaimedPriority ==
    [status \in HealthStatus |->
        CASE status = "Ready"        -> 0
          [] status = "Affected"     -> 1
          [] status = "ShuttingDown" -> 2
          [] status = "ShutDown"     -> 3
          [] status = "NotReady"     -> 4
          [] status = "Panicked"     -> 5]

\* The last check of the call's clone that reports `name`.
LastWithName(name) ==
    CHOOSE i \in 1..Len(health_checks) :
        /\ health_checks[i].name = name
        /\ \A j \in (i + 1)..Len(health_checks) : health_checks[j].name # name

CloneNames == {health_checks[i].name : i \in 1..Len(health_checks)}

(* C4: the overall status of a returned AppHealth is the status of greatest
   priority (Ready 0 < Affected 1 < ShuttingDown 2 < ShutDown 3 <
   NotReady 4 < Panicked 5) among the entries of its components map, and
   Ready when the map is empty. *)
C4_OverallIsWorstComponent ==
    pc = "returned" =>
        LET map == app_health.components
            overall == app_health.inner.status IN
        /\ DOMAIN map = {} => overall = "Ready"
        /\ DOMAIN map # {} => \E k \in DOMAIN map : map[k].status = overall
        /\ \A k \in DOMAIN map : ClaimedPriority[map[k].status] <= ClaimedPriority[overall]

\* {ShutDown, Affected} aggregated to ShutDown.
C4_Witness ==
    /\ pc = "returned"
    /\ DOMAIN app_health.components = {"first", "second"}
    /\ app_health.components["first"].status = "ShutDown"
    /\ app_health.components["second"].status = "Affected"
    /\ app_health.inner.status = "ShutDown"

(* C5: a check_health call returns no later than hard_time_limit after it
   started polling, and in its result every check that was abandoned is
   NotReady without details while every other check has its own output. *)
C5_ReturnsWithinHardLimit ==
    pc = "returned" =>
        /\ now <= hard_time_limit
        /\ \A i \in 1..Len(tasks) :
              IF tasks[i].check_future.state = "ready"
              THEN tasks[i].output = tasks[i].check_future.output
              ELSE tasks[i].output = NotReadyNoDetails

(* C6: a check whose future resolves before the hard limit has elapsed,
   before or after the slow limit, is recorded with the Health it resolved
   to, and that Health is the map's entry for its name unless a later check
   of the same name replaces it. *)
C6_SlowCheckKeepsRealOutput ==
    /\ \A i \in 1..Len(tasks) :
          (tasks[i].stage = "returned" /\ tasks[i].check_future.state = "ready") =>
              tasks[i].output = tasks[i].check_future.output
    /\ pc = "returned" =>
          \A i \in 1..Len(tasks) :
              (tasks[i].check_future.state = "ready" /\ LastWithName(health_checks[i].name) = i) =>
                  app_health.components[health_checks[i].name] = tasks[i].check_future.output

\* A check resolved to NotReady with details after the slow limit was logged
\* and before the hard limit, and the map shows exactly that.
C6_Witness ==
    /\ pc = "returned"
    /\ slow_time_limit < hard_time_limit
    /\ now < hard_time_limit
    /\ Len(tasks) = 1
    /\ tasks[1].slow_logged
    /\ tasks[1].check_future.state = "ready"
    /\ tasks[1].check_future.output = [status |-> "NotReady", details |-> "d1"]
    /\ app_health.components[health_checks[1].name] = [status |-> "NotReady", details |-> "d1"]

(* C8: a call works on the clone of the registry it took under the lock: a
   check pushed while the call is polling gets no future, no entry in the
   components map and no part in the overall status of that call; a call
   that clones after the push has it. *)
C8_CallUsesItsSnapshot ==
    /\ [](pc \in {"polling", "returned"} =>
            /\ Len(tasks) = Len(health_checks)
            /\ Len(health_checks) <= Len(components)
            /\ \A i \in 1..Len(health_checks) : health_checks[i] = components[i])
    /\ [](pc = "returned" =>
            /\ DOMAIN app_health.components = CloneNames
            /\ (CloneNames = {} => app_health.inner.status = "Ready")
            /\ (CloneNames # {} =>
                  \E i \in 1..Len(tasks) : tasks[i].output.status = app_health.inner.status))
    /\ [][pc = "polling" => (health_checks' = health_checks /\ Len(tasks') = Len(tasks))]_vars
    /\ [][(pc = "locked" /\ pc' = "polling") => health_checks' = components]_vars

\* A check named "second" was pushed while the call was polling a clone that
\* holds only "first"; all the call's futures have returned.
C8_Witness ==
    /\ pc = "polling"
    /\ lock = "free"
    /\ Len(health_checks) = 1
    /\ Len(components) = 2
    /\ health_checks[1].name = "first"
    /\ components[2].name = "second"
    /\ tasks[1].stage = "returned"

(* C9: when several checks report the same name, the components map has one
   entry for the name, holding the output of the last of them, and the
   overall status is taken over the map's entries only. *)
C9_LastCheckOfNameWins ==
    pc = "returned" =>
        /\ DOMAIN app_health.components = CloneNames
        /\ \A name \in CloneNames :
              app_health.components[name] = tasks[LastWithName(name)].output
        /\ CloneNames # {} =>
              \E name \in CloneNames :
                  app_health.inner.status = tasks[LastWithName(name)].output.status

\* Two checks named "first": the earlier one Panicked, the later one Ready;
\* the result is Ready.
C9_Witness ==
    /\ pc = "returned"
    /\ Len(health_checks) = 2
    /\ health_checks[1].name = "first"
    /\ health_checks[2].name = "first"
    /\ tasks[1].output.status = "Panicked"
    /\ tasks[2].output.status = "Ready"
    /\ app_health.components["first"].status = "Ready"
    /\ app_health.inner.status = "Ready"

(* C11: over the life of an updater the update issued by Drop happens exactly
   once when the handle ends by being dropped (explicitly, at the end of its
   scope, or when its thread unwinds) and never when it ends through
   freeze(); it happens in the step that ends the handle and pushes ShutDown
   or Panicked. *)
C11_TerminalUpdateExactlyOnce ==
    /\ [](terminal_updates = IF updater = "dropped" THEN 1 ELSE 0)
    /\ [][terminal_updates' # terminal_updates =>
            /\ updater = "live"
            /\ updater' = "dropped"
            /\ terminal_updates' = terminal_updates + 1
            /\ last_update'.call = "update"
            /\ last_update'.health.status \in {"ShutDown", "Panicked"}]_vars
    /\ [][updater # "live" => updater' = updater]_vars

\* The handle ended by unwinding with exactly one terminal update, Panicked.
C11_Witness ==
    /\ updater = "dropped"
    /\ panicking
    /\ terminal_updates = 1
    /\ last_update.health = [status |-> "Panicked", details |-> None]

(* C12 as claimed: a check abandoned at the hard limit is not cancelled; its
   check_health future stays alive and pending after the aggregator stopped
   waiting for it. *)
C12_AbandonedCheckKeepsRunning ==
    \A i \in 1..Len(tasks) :
        (tasks[i].stage = "returned" /\ tasks[i].check_future.state # "ready") =>
            tasks[i].check_future.state = "pending"

(* C12, amended: a check abandoned at the hard limit is recorded as NotReady
   and its pending check_health future is dropped with the guard disarmed,
   so no drop-time warning is emitted for it; the drop-time warning is
   emitted exactly for the checks still waited on when the check_health
   call itself is dropped. *)
C12_AbandonedCheckIsDroppedSilently ==
    \A i \in 1..Len(tasks) :
        /\ (tasks[i].stage = "returned" /\ tasks[i].check_future.state # "ready") =>
              /\ tasks[i].check_future.state = "dropped"
              /\ tasks[i].output = NotReadyNoDetails
              /\ ~tasks[i].is_armed
              /\ ~tasks[i].warned
        /\ tasks[i].stage = "returned" => ~tasks[i].warned
        /\ tasks[i].warned <=> (pc = "cancelled" /\ tasks[i].stage = "dropped")

\* The call was dropped after its first check had timed out at the hard limit
\* (no warning) and while its second check was still pending (warning).
C12_Witness ==
    /\ pc = "cancelled"
    /\ Len(tasks) = 2
    /\ tasks[1].stage = "returned"
    /\ tasks[1].check_future.state = "dropped"
    /\ ~tasks[1].warned
    /\ tasks[2].stage = "dropped"
    /\ tasks[2].warned

(* C13: the components lock is held by check_health only between its lock()
   and the end of the clone statement, never while it waits on a check or a
   timer; while the call is polling the lock is free unless an insert, which
   never waits under it, holds it. *)
C13_LockNotHeldWhilePolling ==
    /\ pc = "polling" => lock # "check_health"
    /\ lock = "check_health" <=> pc = "locked"
    /\ lock = "insert" <=> inserting # NoCheck
    /\ (pc = "polling" /\ inserting = NoCheck) => lock = "free"

\* An insert holds the lock while the call, one tick into its wait, still
\* has a pending check.
C13_Witness ==
    /\ pc = "polling"
    /\ now >= 1
    /\ lock = "insert"
    /\ \E i \in 1..Len(tasks) : tasks[i].check_future.state = "pending"

(* C14: the wait on one check ends no later than hard_time_limit after the
   check started to be polled: the step in which a check's wait ends, with
   its output or with the synthesized NotReady, happens at an instant that is
   not later than the hard limit, so a check that resolves later than the
   hard limit is never recorded with its own output. *)
C14_WaitOnOneCheckWithinHardLimit ==
    [][\A i \in 1..Len(tasks) :
          (pc = "polling" /\ pc' = "polling" /\ tasks[i].stage # "returned"
              /\ tasks'[i].stage = "returned") =>
                 now <= hard_time_limit]_vars

(* C15: insert_custom_component never rejects and never replaces: the
   registry changes only by an insert, which appends exactly the inserted
   check and leaves every earlier entry in place, also when the name is
   already registered. *)
C15_InsertOnlyAppends ==
    /\ [][components' # components =>
            /\ lock = "insert"
            /\ components' = Append(components, inserting)]_vars
    /\ [][(lock = "insert" /\ lock' # "insert") =>
            /\ Len(components') = Len(components) + 1
            /\ \A i \in 1..Len(components) : components'[i] = components[i]
            /\ components'[Len(components')] = inserting]_vars

\* Two inserts of the name "first" left two entries of that name.
C15_Witness ==
    /\ Len(components) = 2
    /\ components[1].name = "first"
    /\ components[2].name = "first"
    /\ lock = "free"

(* C16 as claimed: after a name is registered again, the earlier check of
   that name is not polled by later calls: a call has futures only for the
   last check of each name. *)
C16_ShadowedCheckNotPolled ==
    pc \in {"polling", "returned", "cancelled"} =>
        \A i \in 1..Len(tasks) : LastWithName(health_checks[i].name) = i

(* C16, amended: after a name is registered again, the earlier check stays
   registered and every later call polls it like any other check; only its
   outcome is left out of the result. A call returns only when the earlier
   check's wait has ended too, which for a stuck one is not before the hard
   limit. *)
C16_ShadowedCheckStillPolled ==
    /\ [][(pc = "locked" /\ pc' = "polling") =>
            /\ Len(tasks') = Len(components)
            /\ \A i \in 1..Len(components) :
                  /\ tasks'[i].stage = "slow"
                  /\ tasks'[i].check_future.state = "pending"]_vars
    /\ [](pc = "returned" =>
            \A i \in 1..Len(tasks) :
                /\ tasks[i].stage = "returned"
                /\ tasks[i].check_future.state = "dropped" => now >= hard_time_limit)

\* Two checks named "first": the earlier one stuck until the hard limit, the
\* later one Ready; the call returned at the hard limit with "first" Ready.
C16_Witness ==
    /\ pc = "returned"
    /\ Len(health_checks) = 2
    /\ health_checks[1].name = "first"
    /\ health_checks[2].name = "first"
    /\ tasks[1].check_future.state = "dropped"
    /\ tasks[2].output = [status |-> "Ready", details |-> None]
    /\ ~tasks[2].slow_logged
    /\ now >= hard_time_limit
    /\ app_health.inner.status = "Ready"

(* C17: the aggregator's slow limit is strictly smaller than its hard limit
   in every state. *)
C17_SlowLimitBelowHardLimit == slow_time_limit < hard_time_limit

(* C18: a returned AppHealth is healthy exactly when every entry of its
   components map has status Ready or Affected, which includes the empty
   map; one entry that is NotReady (reported or synthesized at the hard
   limit), ShuttingDown, ShutDown or Panicked makes it unhealthy. *)
C18_HealthyIffAllComponentsHealthy ==
    pc = "returned" =>
        (app_is_healthy(app_health) <=>
            \A k \in DOMAIN app_health.components :
                app_health.components[k].status \in {"Ready", "Affected"})

\* Ready and ShuttingDown aggregate to an unhealthy result.
C18_Witness ==
    /\ pc = "returned"
    /\ DOMAIN app_health.components = {"first", "second"}
    /\ app_health.components["first"].status = "Ready"
    /\ app_health.components["second"].status = "ShuttingDown"
    /\ ~app_is_healthy(app_health)

(* C19: check_health returns only when every check of its clone has an
   outcome, its own output or the synthesized NotReady, whatever the order
   in which the waits ended; an outcome, once recorded, is not rewritten; and
   the keys of the returned components map are exactly the names in the
   clone. *)
C19_ReturnsAfterEveryOutcome ==
    /\ [](pc = "returned" =>
            /\ Len(tasks) = Len(health_checks)
            /\ \A i \in 1..Len(tasks) :
                  tasks[i].stage = "returned" /\ tasks[i].output \in Health
            /\ DOMAIN app_health.components = {health_checks[i].name : i \in 1..Len(tasks)})
    /\ [][(pc = "polling" /\ pc' = "returned") =>
            \A i \in 1..Len(tasks) : tasks[i].stage = "returned"]_vars
    /\ [][\A i \in 1..Len(tasks) :
            (tasks[i].stage = "returned" /\ pc' \in {"polling", "returned"}) =>
                tasks'[i] = tasks[i]]_vars

\* The first check was abandoned at the hard limit, the second one resolved
\* after the slow limit; the map has both names.
C19_Witness ==
    /\ pc = "returned"
    /\ Len(tasks) = 2
    /\ tasks[1].check_future.state = "dropped"
    /\ tasks[2].check_future.state = "ready"
    /\ tasks[2].slow_logged
    /\ DOMAIN app_health.components = {"first", "second"}
    /\ app_health.components[health_checks[2].name].status = "Affected"

(* C20: once the HealthUpdater has ended (dropped or frozen) the value of the
   cell never changes again, whatever the readers and the aggregator do:
   the handle stays ended, a dropped unfrozen handle left ShutDown or
   Panicked there, and every registered check that resolves afterwards,
   also in a call where another check times out, outputs that same value. *)
C20_ValueStableAfterHandleEnded ==
    /\ [][updater # "live" =>
            /\ updater' = updater
            /\ health_sender' = health_sender]_vars
    /\ [](updater = "dropped" => health_sender.status \in {"ShutDown", "Panicked"})
    /\ [][\A i \in 1..Len(tasks) :
            (/\ updater # "live"
             /\ i \in 1..Len(tasks')
             /\ tasks[i].check_future.state = "pending"
             /\ tasks'[i].check_future.state = "ready") =>
                tasks'[i].check_future.output = health_sender']_vars

\* The handle was dropped during a panic; a later aggregator call had its
\* first check abandoned at the hard limit and its second one report the
\* unchanged Panicked value.
C20_Witness ==
    /\ updater = "dropped"
    /\ health_sender = From("Panicked")
    /\ pc = "returned"
    /\ Len(tasks) = 2
    /\ tasks[1].check_future.state = "dropped"
    /\ tasks[2].output = health_sender
    /\ app_health.inner.status = "Panicked"

====
